---- MODULE Spec2Model ----
(***************************************************************************)
(* Model of the onboarding screen frontend/app/dashboard/page.tsx: the     *)
(* Dashboard component's three pieces of React state, the rendered view,   *)
(* the two UI handlers, the dialog's close handler and the asynchronous    *)
(* handleConfirm workflow with its two awaited fetch calls.                *)
(*                                                                         *)
(* Each action is one turn of the browser's event loop: a UI event handler *)
(* together with the re-render React performs when it returns, or the      *)
(* settlement of a fetch promise together with the continuation of         *)
(* handleConfirm that runs as a microtask right after it.                  *)
(***************************************************************************)
EXTENDS Integers, Sequences, FiniteSets, TLC

\* ---- bounds ----
\* Number of date-control change events explored in one session.
MaxChanges == 3
\* Number of event-loop turns a pending network call may be delayed.
MaxDelay == 2

\* ---- data ----
\* CalendarDate values the date control can produce (year, month, day).
Years == {824, 2024}
Months == {3, 11}
Days == {5, 15}
CalendarDate == [year : Years, month : Months, day : Days]

\* A nullable value: <<>> is null/undefined, <<v>> is the value v.
Null == <<>>
Some(v) == <<v>>
OptionalDate == {Null} \cup {Some(d) : d \in CalendarDate}

\* HTTP statuses a settled response may carry; fetch resolves for all of them.
HttpStatuses == {200, 500}

Digit(n) ==
  CASE n = 0 -> "0" [] n = 1 -> "1" [] n = 2 -> "2" [] n = 3 -> "3"
    [] n = 4 -> "4" [] n = 5 -> "5" [] n = 6 -> "6" [] n = 7 -> "7"
    [] n = 8 -> "8" [] n = 9 -> "9"

\* Decimal rendering of n, zero-padded on the left to `width` digits.
RECURSIVE padStart(_, _)
padStart(n, width) ==
  IF width = 0 THEN ""
  ELSE padStart(n \div 10, width - 1) \o Digit(n % 10)

\* CalendarDate.toString(): the ISO 8601 calendar string YYYY-MM-DD.
toString(d) ==
  padStart(d.year, 4) \o "-" \o padStart(d.month, 2) \o "-" \o padStart(d.day, 2)

\* selectedDate?.toString(): undefined for null, else the calendar string.
optionalToString(od) ==
  IF od = Null THEN Null ELSE Some(toString(od[1]))

\* JSON.stringify({ start_date: v }): an undefined property is omitted.
saveStartDateBody(v) ==
  IF v = Null THEN "{}"
  ELSE "{\"start_date\":\"" \o v[1] \o "\"}"

\* JSON.stringify({ user_id: "your_user_id_here" }).
fetchEmailsBody == "{\"user_id\":\"your_user_id_here\"}"

\* The text of the dashboard's summary line.
summaryText(sd) ==
  "Your job search start date: " \o (IF sd # Null THEN toString(sd[1]) ELSE "Not set")

\* Faulty variant of Render: the dashboard is keyed on startDate being set.
Render_DashboardWhenDateSet(modal, sd, picked) ==
  [ modal     |-> modal,
    picker    |-> IF modal THEN picked ELSE Null,
    confirm   |-> modal,
    dashboard |-> sd # Null,
    summary   |-> IF sd # Null THEN summaryText(sd) ELSE "" ]

\* Faulty variant of Render: the confirm button sits outside the Transition
\* and stays on screen when the modal is closed.
Render_ConfirmAlwaysShown(modal, sd, picked) ==
  [ modal     |-> modal,
    picker    |-> IF modal THEN picked ELSE Null,
    confirm   |-> TRUE,
    dashboard |-> ~modal,
    summary   |-> IF ~modal THEN summaryText(sd) ELSE "" ]

\* The component's render: what is on screen for the given state.
Render(modal, sd, picked) ==
  [ modal     |-> modal,
    picker    |-> IF modal THEN picked ELSE Null,
    confirm   |-> modal,
    dashboard |-> ~modal,
    summary   |-> IF ~modal THEN summaryText(sd) ELSE "" ]

\* Faulty variant of routerReplace: the route is pushed as a new entry.
routerReplace_Push(h, route) == Append(h, route)

\* router.replace(route): overwrite the current (last) history entry.
routerReplace(h, route) == [h EXCEPT ![Len(h)] = route]

\* History stacks the screen can be opened with; the last entry is current.
InitialHistories ==
  { <<"/dashboard">>, <<"/", "/dashboard">>, <<"/", "/login", "/dashboard">> }

VARIABLES
  showModal,      \* useState(true)
  startDate,      \* useState<CalendarDate | null>(null)
  selectedDate,   \* useState<CalendarDate | null>(null)
  view,           \* what the last render put on screen
  pc,             \* position of the handleConfirm workflow
  saveCall,       \* POST /api/save-start-date: state, status, body
  fetchCall,      \* POST /api/fetch-emails: state, status, body
  history,        \* the router's history stack
  navigations,    \* number of router.replace calls made
  confirms,       \* number of handleConfirm invocations
  dismissals,     \* number of Dialog onClose invocations
  changes,        \* number of DatePicker onChange invocations
  lastChange,     \* the value passed to the latest onChange (Null if none)
  saveDelay,      \* turns the save-start-date call has stayed pending
  fetchDelay      \* turns the fetch-emails call has stayed pending

vars == << showModal, startDate, selectedDate, view, pc, saveCall, fetchCall,
           history, navigations, confirms, dismissals, changes, lastChange,
           saveDelay, fetchDelay >>

NoCall == [state |-> "none", status |-> 0, body |-> ""]
Pending(body) == [state |-> "pending", status |-> 0, body |-> body]
Resolved(call, status) == [call EXCEPT !.state = "resolved", !.status = status]
Rejected(call) == [call EXCEPT !.state = "rejected"]

Settled(call) == call.state \in {"resolved", "rejected"}

TypeOK ==
  /\ showModal \in BOOLEAN
  /\ startDate \in OptionalDate
  /\ selectedDate \in OptionalDate
  /\ pc \in {"AwaitingInput", "AwaitSaveStartDate", "AwaitFetchEmails",
             "Completed", "UnhandledRejection"}
  /\ saveCall.state \in {"none", "pending", "resolved", "rejected"}
  /\ fetchCall.state \in {"none", "pending", "resolved", "rejected"}
  /\ navigations \in Nat /\ confirms \in Nat /\ dismissals \in Nat
  /\ changes \in 0..MaxChanges
  /\ lastChange \in OptionalDate
  /\ saveDelay \in 0..MaxDelay /\ fetchDelay \in 0..MaxDelay

Init ==
  /\ showModal = TRUE
  /\ startDate = Null
  /\ selectedDate = Null
  /\ view = Render(TRUE, Null, Null)
  /\ pc = "AwaitingInput"
  /\ saveCall = NoCall
  /\ fetchCall = NoCall
  /\ history \in InitialHistories
  /\ navigations = 0
  /\ confirms = 0
  /\ dismissals = 0
  /\ changes = 0
  /\ lastChange = Null
  /\ saveDelay = 0
  /\ fetchDelay = 0

\* Faulty variant of DatePickerOnChange: a cleared value keeps the old pick.
DatePickerOnChange_KeepsOnClear(date) ==
  /\ view.modal
  /\ changes < MaxChanges
  /\ selectedDate' = IF date = Null THEN selectedDate ELSE date
  /\ changes' = changes + 1
  /\ lastChange' = date
  /\ UNCHANGED << showModal, startDate, pc, saveCall, fetchCall, history,
                  navigations, confirms, dismissals, saveDelay, fetchDelay >>
  /\ view' = Render(showModal', startDate', selectedDate')

\* Faulty variant of DatePickerOnChange: startDate follows the selection.
DatePickerOnChange_AlsoSetsStartDate(date) ==
  /\ view.modal
  /\ changes < MaxChanges
  /\ selectedDate' = date
  /\ startDate' = date
  /\ changes' = changes + 1
  /\ lastChange' = date
  /\ UNCHANGED << showModal, pc, saveCall, fetchCall, history,
                  navigations, confirms, dismissals, saveDelay, fetchDelay >>
  /\ view' = Render(showModal', startDate', selectedDate')

\* DatePicker onChange={(date) => setSelectedDate(date as CalendarDate)}
DatePickerOnChange(date) ==
  /\ view.modal
  /\ changes < MaxChanges
  /\ selectedDate' = date
  /\ changes' = changes + 1
  /\ lastChange' = date
  /\ UNCHANGED << showModal, startDate, pc, saveCall, fetchCall, history,
                  navigations, confirms, dismissals, saveDelay, fetchDelay >>
  /\ view' = Render(showModal', startDate', selectedDate')

\* Faulty variant of DialogOnClose: dismissal also commits the picked date.
DialogOnClose_CommitsDate ==
  /\ view.modal
  /\ showModal' = FALSE
  /\ startDate' = selectedDate
  /\ dismissals' = dismissals + 1
  /\ UNCHANGED << selectedDate, pc, saveCall, fetchCall, history,
                  navigations, confirms, changes, lastChange, saveDelay,
                  fetchDelay >>
  /\ view' = Render(showModal', startDate', selectedDate')

\* Faulty variant of DialogOnClose: closing the dialog runs the confirmation.
DialogOnClose_Confirms ==
  /\ view.modal
  /\ startDate' = selectedDate
  /\ showModal' = FALSE
  /\ saveCall' = Pending(saveStartDateBody(optionalToString(selectedDate)))
  /\ pc' = "AwaitSaveStartDate"
  /\ dismissals' = dismissals + 1
  /\ UNCHANGED << selectedDate, fetchCall, history, navigations, confirms,
                  changes, lastChange, saveDelay, fetchDelay >>
  /\ view' = Render(showModal', startDate', selectedDate')

\* Dialog onClose={() => setShowModal(false)}: Escape or a click outside.
DialogOnClose ==
  /\ view.modal
  /\ showModal' = FALSE
  /\ dismissals' = dismissals + 1
  /\ UNCHANGED << startDate, selectedDate, pc, saveCall, fetchCall, history,
                  navigations, confirms, changes, lastChange, saveDelay,
                  fetchDelay >>
  /\ view' = Render(showModal', startDate', selectedDate')

\* Faulty variant of handleConfirm: the first fetch is not awaited, so both
\* calls are issued in the same turn.
handleConfirm_NoAwait ==
  /\ view.confirm
  /\ startDate' = selectedDate
  /\ showModal' = FALSE
  /\ saveCall' = Pending(saveStartDateBody(optionalToString(selectedDate)))
  /\ fetchCall' = Pending(fetchEmailsBody)
  /\ pc' = "AwaitSaveStartDate"
  /\ confirms' = confirms + 1
  /\ UNCHANGED << selectedDate, history, navigations, dismissals,
                  changes, lastChange, saveDelay, fetchDelay >>
  /\ view' = Render(showModal', startDate', selectedDate')

\* Faulty variant of handleConfirm: the handler returns early when no date
\* is selected.
handleConfirm_RequiresDate ==
  /\ view.confirm
  /\ selectedDate # Null
  /\ startDate' = selectedDate
  /\ showModal' = FALSE
  /\ saveCall' = Pending(saveStartDateBody(optionalToString(selectedDate)))
  /\ pc' = "AwaitSaveStartDate"
  /\ confirms' = confirms + 1
  /\ UNCHANGED << selectedDate, fetchCall, history, navigations, dismissals,
                  changes, lastChange, saveDelay, fetchDelay >>
  /\ view' = Render(showModal', startDate', selectedDate')

\* Faulty variant of handleConfirm: the body is built from the startDate of
\* the render the handler closed over, not from selectedDate.
handleConfirm_StaleStartDate ==
  /\ view.confirm
  /\ startDate' = selectedDate
  /\ showModal' = FALSE
  /\ saveCall' = Pending(saveStartDateBody(optionalToString(startDate)))
  /\ pc' = "AwaitSaveStartDate"
  /\ confirms' = confirms + 1
  /\ UNCHANGED << selectedDate, fetchCall, history, navigations, dismissals,
                  changes, lastChange, saveDelay, fetchDelay >>
  /\ view' = Render(showModal', startDate', selectedDate')

\* Faulty variant of handleConfirm: the state is updated only after the
\* awaited calls, so the modal stays open while the first call is pending.
handleConfirm_ClosesAfterSave ==
  /\ view.confirm
  /\ saveCall' = Pending(saveStartDateBody(optionalToString(selectedDate)))
  /\ pc' = "AwaitSaveStartDate"
  /\ confirms' = confirms + 1
  /\ UNCHANGED << showModal, startDate, selectedDate, fetchCall, history,
                  navigations, dismissals, changes, lastChange, saveDelay,
                  fetchDelay >>
  /\ view' = Render(showModal', startDate', selectedDate')

\* handleConfirm up to its first await: the button's onClick.
handleConfirm ==
  /\ view.confirm
  /\ startDate' = selectedDate
  /\ showModal' = FALSE
  /\ saveCall' = Pending(saveStartDateBody(optionalToString(selectedDate)))
  /\ pc' = "AwaitSaveStartDate"
  /\ confirms' = confirms + 1
  /\ UNCHANGED << selectedDate, fetchCall, history, navigations, dismissals,
                  changes, lastChange, saveDelay, fetchDelay >>
  /\ view' = Render(showModal', startDate', selectedDate')

\* A pending call stays pending for one more turn of the event loop.
NetworkDelay ==
  \/ /\ saveCall.state = "pending"
     /\ saveDelay < MaxDelay
     /\ saveDelay' = saveDelay + 1
     /\ UNCHANGED << showModal, startDate, selectedDate, view, pc, saveCall,
                     fetchCall, history, navigations, confirms, dismissals,
                     changes, lastChange, fetchDelay >>
  \/ /\ fetchCall.state = "pending"
     /\ fetchDelay < MaxDelay
     /\ fetchDelay' = fetchDelay + 1
     /\ UNCHANGED << showModal, startDate, selectedDate, view, pc, saveCall,
                     fetchCall, history, navigations, confirms, dismissals,
                     changes, lastChange, saveDelay >>

\* Faulty variant of SaveStartDateResolves: router.replace is called as soon
\* as the first call resolves, before the second call settles.
SaveStartDateResolves_NavigatesEarly(status) ==
  /\ pc = "AwaitSaveStartDate"
  /\ saveCall.state = "pending"
  /\ saveCall' = Resolved(saveCall, status)
  /\ fetchCall' = Pending(fetchEmailsBody)
  /\ history' = routerReplace(history, "/processing")
  /\ navigations' = navigations + 1
  /\ pc' = "AwaitFetchEmails"
  /\ UNCHANGED << showModal, startDate, selectedDate, view,
                  confirms, dismissals, changes, lastChange,
                  saveDelay, fetchDelay >>

\* Faulty variant of SaveStartDateResolves: the handler throws unless the
\* response is ok (status 200).
SaveStartDateResolves_ChecksOk(status) ==
  /\ pc = "AwaitSaveStartDate"
  /\ saveCall.state = "pending"
  /\ saveCall' = Resolved(saveCall, status)
  /\ fetchCall' = IF status = 200 THEN Pending(fetchEmailsBody) ELSE fetchCall
  /\ pc' = IF status = 200 THEN "AwaitFetchEmails" ELSE "UnhandledRejection"
  /\ UNCHANGED << showModal, startDate, selectedDate, view, history,
                  navigations, confirms, dismissals, changes, lastChange,
                  saveDelay, fetchDelay >>

\* The first await resolves (any HTTP status): the second fetch is issued.
SaveStartDateResolves(status) ==
  /\ pc = "AwaitSaveStartDate"
  /\ saveCall.state = "pending"
  /\ saveCall' = Resolved(saveCall, status)
  /\ fetchCall' = Pending(fetchEmailsBody)
  /\ pc' = "AwaitFetchEmails"
  /\ UNCHANGED << showModal, startDate, selectedDate, view, history,
                  navigations, confirms, dismissals, changes, lastChange,
                  saveDelay, fetchDelay >>

\* Faulty variant of SaveStartDateRejects: the rejection is caught and the
\* workflow goes on to the second fetch.
SaveStartDateRejects_Caught ==
  /\ pc = "AwaitSaveStartDate"
  /\ saveCall.state = "pending"
  /\ saveCall' = Rejected(saveCall)
  /\ fetchCall' = Pending(fetchEmailsBody)
  /\ pc' = "AwaitFetchEmails"
  /\ UNCHANGED << showModal, startDate, selectedDate, view, history,
                  navigations, confirms, dismissals, changes, lastChange,
                  saveDelay, fetchDelay >>

\* Faulty variant of SaveStartDateRejects: the rejection is caught and the
\* modal is opened again for another attempt.
SaveStartDateRejects_ReopensModal ==
  /\ pc = "AwaitSaveStartDate"
  /\ saveCall.state = "pending"
  /\ saveCall' = Rejected(saveCall)
  /\ showModal' = TRUE
  /\ pc' = "UnhandledRejection"
  /\ UNCHANGED << startDate, selectedDate, fetchCall, history,
                  navigations, confirms, dismissals, changes, lastChange,
                  saveDelay, fetchDelay >>
  /\ view' = Render(showModal', startDate', selectedDate')

\* The first await throws (network error): handleConfirm's promise rejects.
SaveStartDateRejects ==
  /\ pc = "AwaitSaveStartDate"
  /\ saveCall.state = "pending"
  /\ saveCall' = Rejected(saveCall)
  /\ pc' = "UnhandledRejection"
  /\ UNCHANGED << showModal, startDate, selectedDate, view, fetchCall, history,
                  navigations, confirms, dismissals, changes, lastChange,
                  saveDelay, fetchDelay >>

\* Faulty variant of FetchEmailsResolves: the selection is cleared before
\* navigating.
FetchEmailsResolves_ClearsSelection(status) ==
  /\ pc = "AwaitFetchEmails"
  /\ fetchCall.state = "pending"
  /\ fetchCall' = Resolved(fetchCall, status)
  /\ selectedDate' = Null
  /\ history' = routerReplace(history, "/processing")
  /\ navigations' = navigations + 1
  /\ pc' = "Completed"
  /\ UNCHANGED << showModal, startDate, view, saveCall, confirms,
                  dismissals, changes, lastChange, saveDelay, fetchDelay >>

\* The second await resolves (any HTTP status): router.replace("/processing").
FetchEmailsResolves(status) ==
  /\ pc = "AwaitFetchEmails"
  /\ fetchCall.state = "pending"
  /\ fetchCall' = Resolved(fetchCall, status)
  /\ history' = routerReplace(history, "/processing")
  /\ navigations' = navigations + 1
  /\ pc' = "Completed"
  /\ UNCHANGED << showModal, startDate, selectedDate, view, saveCall, confirms,
                  dismissals, changes, lastChange, saveDelay, fetchDelay >>

\* Faulty variant of FetchEmailsRejects: the rejection is caught and the
\* workflow goes on to router.replace.
FetchEmailsRejects_Caught ==
  /\ pc = "AwaitFetchEmails"
  /\ fetchCall.state = "pending"
  /\ fetchCall' = Rejected(fetchCall)
  /\ history' = routerReplace(history, "/processing")
  /\ navigations' = navigations + 1
  /\ pc' = "Completed"
  /\ UNCHANGED << showModal, startDate, selectedDate, view, saveCall, confirms,
                  dismissals, changes, lastChange, saveDelay, fetchDelay >>

\* The second await throws (network error): handleConfirm's promise rejects.
FetchEmailsRejects ==
  /\ pc = "AwaitFetchEmails"
  /\ fetchCall.state = "pending"
  /\ fetchCall' = Rejected(fetchCall)
  /\ pc' = "UnhandledRejection"
  /\ UNCHANGED << showModal, startDate, selectedDate, view, saveCall, history,
                  navigations, confirms, dismissals, changes, lastChange,
                  saveDelay, fetchDelay >>

Next ==
  \/ \E date \in OptionalDate : DatePickerOnChange(date)
  \/ DialogOnClose
  \/ handleConfirm
  \/ NetworkDelay
  \/ \E status \in HttpStatuses : SaveStartDateResolves(status)
  \/ SaveStartDateRejects
  \/ \E status \in HttpStatuses : FetchEmailsResolves(status)
  \/ FetchEmailsRejects

Spec == Init /\ [][Next]_vars

\* ---- properties ----

\* The calendar strings expected for the modelled dates, written out digit
\* by digit rather than computed by toString.
YearText(y) == IF y = 824 THEN "0824" ELSE "2024"
MonthText(m) == IF m = 3 THEN "03" ELSE "11"
DayText(d) == IF d = 5 THEN "05" ELSE "15"
IsoText(d) == YearText(d.year) \o "-" \o MonthText(d.month) \o "-" \o DayText(d.day)
SummaryPrefix == "Your job search start date: "

\* C1: the fetch-emails call is never issued before the save-start-date call
\* of the same confirmation has settled, however long that call is delayed.
C1_FetchAfterSaveSettled ==
  fetchCall.state # "none" => Settled(saveCall)

C1_Witness ==
  /\ fetchCall.state = "pending"
  /\ Settled(saveCall)
  /\ saveDelay > 0

C5_StartDateIsLastChange ==
  confirms > 0 =>
    /\ startDate = lastChange
    /\ changes = 0 => startDate = Null

C5_Witness ==
  /\ confirms = 1
  /\ changes >= 2
  /\ startDate = Some([year |-> 2024, month |-> 3, day |-> 15])

\* C6 as stated: whenever showModal is false a confirmation has occurred:
\* startDate was set from selectedDate and save-start-date was issued.
C6_ModalClosedOnlyByConfirm ==
  ~showModal =>
    /\ confirms > 0
    /\ startDate = selectedDate
    /\ saveCall.state # "none"

\* C6 amended: showModal becomes false either as the first step of a
\* confirmation or by the dialog's close event; in the second case startDate
\* stays null and no call is ever issued.
C6_ModalClosedByConfirmOrDismissal ==
  /\ showModal => confirms = 0 /\ dismissals = 0
  /\ ~showModal =>
       \/ /\ confirms = 1
          /\ dismissals = 0
          /\ startDate = selectedDate
          /\ saveCall.state # "none"
       \/ /\ confirms = 0
          /\ dismissals = 1
          /\ startDate = Null
          /\ saveCall.state = "none"
          /\ fetchCall.state = "none"
          /\ navigations = 0

C6_Witness ==
  /\ ~showModal
  /\ dismissals = 1
  /\ confirms = 0
  /\ selectedDate # Null

\* C7: showModal starts true and is monotone: once false it stays false
\* through every later change, confirm, dismiss and settlement event.
C7_ModalStartsTrueStaysFalse ==
  /\ showModal = TRUE
  /\ [][~showModal => ~showModal']_vars

C7_Witness ==
  /\ ~showModal
  /\ saveCall.state = "rejected"
  /\ changes > 0

C9_PayloadIsStartDate ==
  saveCall.state # "none" =>
    \/ /\ startDate = Null
       /\ saveCall.body = "{}"
       /\ view.summary = SummaryPrefix \o "Not set"
    \/ \E d \in CalendarDate :
         /\ startDate = Some(d)
         /\ saveCall.body = "{\"start_date\":\"" \o IsoText(d) \o "\"}"
         /\ view.summary = SummaryPrefix \o IsoText(d)

C9_Witness ==
  /\ saveCall.state = "pending"
  /\ saveCall.body = "{\"start_date\":\"2024-03-15\"}"
  /\ view.summary = "Your job search start date: 2024-03-15"

\* C10: the date control and the confirm action are on screen and usable
\* exactly when showModal is true, the dashboard summary exactly when it is
\* false; the summary shows startDate as a calendar string, or "Not set".
C10_ViewFollowsShowModal ==
  /\ view.modal <=> showModal
  /\ view.confirm <=> showModal
  /\ (ENABLED handleConfirm) <=> showModal
  /\ changes < MaxChanges =>
       ((ENABLED (\E date \in OptionalDate : DatePickerOnChange(date))) <=> showModal)
  /\ showModal => view.picker = selectedDate
  /\ view.dashboard <=> ~showModal
  /\ view.dashboard =>
       \/ startDate = Null /\ view.summary = SummaryPrefix \o "Not set"
       \/ \E d \in CalendarDate :
            startDate = Some(d) /\ view.summary = SummaryPrefix \o IsoText(d)
  /\ ~view.dashboard => view.summary = ""

C10_Witness ==
  /\ view.dashboard
  /\ ~view.modal
  /\ fetchCall.state = "pending"
  /\ view.summary = "Your job search start date: 0824-11-05"

\* C11: on completion the current history entry is replaced, not pushed: the
\* navigation step keeps the length of the history stack and every entry
\* below the current one, the current entry becomes /processing, and no entry
\* of the stack leads back to the onboarding screen.
C11_HistoryEntryReplaced ==
  [][navigations' # navigations =>
       /\ Len(history') = Len(history)
       /\ SubSeq(history', 1, Len(history) - 1) = SubSeq(history, 1, Len(history) - 1)
       /\ history[Len(history)] = "/dashboard"
       /\ history'[Len(history')] = "/processing"
       /\ \A i \in 1..Len(history') : history'[i] # "/dashboard"]_vars

C11_Witness ==
  /\ navigations = 1
  /\ history = <<"/", "/login", "/processing">>

\* C12: a date-control change event changes only selectedDate (and the value
\* the picker shows): it leaves startDate and showModal unchanged, issues no
\* network call and does not navigate.
C12_ChangeOnlySetsSelectedDate ==
  [][changes' # changes =>
       /\ selectedDate' = lastChange'
       /\ view' = [view EXCEPT !.picker = selectedDate']
       /\ UNCHANGED << startDate, showModal, pc, saveCall, fetchCall, history,
                       navigations, confirms, dismissals >>]_vars

C12_Witness ==
  /\ changes >= 2
  /\ showModal
  /\ selectedDate = Some([year |-> 824, month |-> 3, day |-> 5])
  /\ startDate = Null
  /\ saveCall.state = "none"

\* C13: each call ignores its HTTP status: when a call settles with a
\* response, whatever its status, the workflow takes the same next step
\* (issue fetch-emails, respectively navigate) and the screen shows no error.
C13_HttpStatusIgnored ==
  [][/\ (saveCall.state = "pending" /\ saveCall'.state = "resolved") =>
          /\ saveCall'.status \in HttpStatuses
          /\ fetchCall' = Pending(fetchEmailsBody)
          /\ pc' = "AwaitFetchEmails"
          /\ view' = view
     /\ (fetchCall.state = "pending" /\ fetchCall'.state = "resolved") =>
          /\ fetchCall'.status \in HttpStatuses
          /\ navigations' = navigations + 1
          /\ history'[Len(history')] = "/processing"
          /\ pc' = "Completed"
          /\ view' = view]_vars

C13_Witness ==
  /\ saveCall.state = "resolved" /\ saveCall.status = 500
  /\ fetchCall.state = "resolved" /\ fetchCall.status = 500
  /\ pc = "Completed"
  /\ navigations = 1

\* C14: the dashboard is shown before persistence completes: from the
\* confirmation until the workflow ends the screen is the dashboard summary
\* of startDate, with no modal and no loading or error state, and while
\* save-start-date is pending fetch-emails has not been issued.
C14_DashboardShownWhileCallsPending ==
  /\ pc \in {"AwaitSaveStartDate", "AwaitFetchEmails"} =>
       /\ ~showModal
       /\ \/ /\ startDate = Null
             /\ view = [modal |-> FALSE, picker |-> Null, confirm |-> FALSE,
                        dashboard |-> TRUE,
                        summary |-> SummaryPrefix \o "Not set"]
          \/ \E d \in CalendarDate :
               /\ startDate = Some(d)
               /\ view = [modal |-> FALSE, picker |-> Null, confirm |-> FALSE,
                          dashboard |-> TRUE,
                          summary |-> SummaryPrefix \o IsoText(d)]
  /\ saveCall.state = "pending" =>
       pc = "AwaitSaveStartDate" /\ fetchCall.state = "none"

C14_Witness ==
  /\ ~showModal
  /\ view.dashboard
  /\ view.summary = "Your job search start date: 2024-11-15"
  /\ saveCall.state = "pending"
  /\ fetchCall.state = "none"
  /\ navigations = 0

\* C15: dismissing the modal through the dialog's close event sets showModal
\* to false, leaves startDate null, issues neither call and never navigates;
\* the dashboard then shows "Not set" and no action of the screen is enabled.
C15_DismissalLeavesDeadEnd ==
  dismissals > 0 =>
    /\ ~showModal
    /\ startDate = Null
    /\ confirms = 0
    /\ pc = "AwaitingInput"
    /\ saveCall = NoCall
    /\ fetchCall = NoCall
    /\ navigations = 0
    /\ history[Len(history)] = "/dashboard"
    /\ view.dashboard
    /\ view.summary = SummaryPrefix \o "Not set"
    /\ ~ENABLED handleConfirm
    /\ ~ENABLED Next

C15_Witness ==
  /\ dismissals = 1
  /\ view.dashboard
  /\ view.summary = "Your job search start date: Not set"
  /\ lastChange # Null
  /\ history = <<"/dashboard">>

\* C16: in one session handleConfirm runs at most once, so at most one
\* save-start-date call and at most one fetch-emails call are issued (a call
\* only ever becomes pending from never having been issued) and no second
\* workflow starts while or after one is in flight.
C16_AtMostOneWorkflow ==
  [][/\ confirms' <= 1
     /\ pc # "AwaitingInput" => confirms' = confirms
     /\ (saveCall'.state = "pending" /\ saveCall # saveCall') =>
          saveCall = NoCall /\ confirms = 0 /\ showModal
     /\ (fetchCall'.state = "pending" /\ fetchCall # fetchCall') =>
          fetchCall = NoCall /\ confirms = 1 /\ ~showModal]_vars

C16_Witness ==
  /\ confirms = 1
  /\ saveCall.state = "resolved"
  /\ fetchCall.state = "pending"
  /\ fetchDelay = 1
  /\ ~view.confirm

\* C17: after the synchronous first step of a confirmation, the settlement
\* of either call (resolve or reject) and the navigation step leave
\* selectedDate, startDate and showModal unchanged.
C17_SettlementKeepsState ==
  [][confirms > 0 =>
       UNCHANGED << selectedDate, startDate, showModal, view >>]_vars

C17_Witness ==
  /\ pc = "Completed"
  /\ navigations = 1
  /\ selectedDate = Some([year |-> 2024, month |-> 11, day |-> 5])
  /\ startDate = selectedDate
  /\ ~showModal

====
